---- MODULE Spec2Model ----
(***************************************************************************)
(* Download job queue of Crescendo (services/jobqueue.go): the job         *)
(* registry, the dispatch channel, the worker loops and the request        *)
(* handlers that call AddJob and CancelJob.                                 *)
(*                                                                         *)
(* Granularity.  Every method of jobQueue that takes jq.mu is one atomic   *)
(* action guarded by mu = "free", except AddJob, which sends on jq.queue   *)
(* while it holds the lock and can therefore stay inside its critical      *)
(* section when the channel is full.  The worker's accesses that happen    *)
(* outside the lock (the receive from the channel, the read of job.Status  *)
(* at line 186, the writes of job.Title and job.Artist) are steps of their *)
(* own, so every interleaving of them with the locked sections is a        *)
(* behaviour.  The read at line 186 races with CancelJob's write; it       *)
(* yields the value before or after that write, and both orders are        *)
(* behaviours of the model.                                                 *)
(***************************************************************************)
EXTENDS Integers, Sequences, FiniteSets, TLC

\* ---------------------------------------------------------------- bounds
\* Number of AddJob calls explored.
MaxJobs == 2
\* Largest maxWorkers handed to NewJobQueue (the server passes 2, the test
\* suite 1).
MaxWorkers == 2
\* Capacity of jq.queue.  The program uses 100 (jobqueue.go:41); the model
\* scales it down so that a full channel is reachable with a few jobs.
QueueCap == 1
\* Capacity of a client's send channel.  The program uses 256 (client.go:36);
\* the model scales it down so that a full channel is reachable.
SendCap == 1
\* Number of BroadcastProgress calls explored on the hub.
MaxEvents == 2

\* ---------------------------------------------------------------- inputs
\* Request goroutines of the Queue* handlers (handlers/downloads.go).
Submitters == {"s1", "s2"}
\* Goroutines that call the JobQueue interface directly and keep only the
\* returned pointer, as TestJobQueue does.
Callers == {"c1", "c2"}
AllCallers == Submitters \cup Callers
\* WebSocket connections (one Client object each).
ClientIds == {"k1", "k2", "k3"}
JobTypes == {"album", "track", "artist"}
ItemIDs == {"track-123"}
\* len(album.Tracks) / len(artist.Albums) as reported by the provider.
UnitCounts == {0, 2}
\* Error messages of the provider.
ProviderErrors == {"network unreachable"}

\* uuid.New().String(): identifiers are numbered in the order of issue.
JobIds == 1..MaxJobs

JobStatusQueued == "queued"
JobStatusProcessing == "processing"
JobStatusCompleted == "completed"
JobStatusFailed == "failed"
JobStatusCancelled == "cancelled"

TerminalStatuses == {JobStatusCompleted, JobStatusFailed, JobStatusCancelled}

VARIABLES
    jobs,        \* jq.jobs: id -> DownloadJob (the record behind the pointer)
    queue,       \* jq.queue: buffered channel of job pointers (ids)
    activeJobs,  \* jq.activeJobs (its key set)
    mu,          \* jq.mu: "free" or the submitter inside AddJob
    maxWorkers,  \* jq.maxWorkers
    workers,     \* worker goroutines: index -> [pc, job, failed, err, n]
    nextId,      \* number of identifiers uuid.New has issued, plus one
    subs,        \* goroutines that call AddJob: caller -> [pc, job]
    ret,         \* output of the step just taken: the call that returned and its result
    cancelled,   \* observation: id -> where the job was when CancelJob returned true
    invoked,     \* observation: ids for which a provider call was made
    events,      \* observation: id -> the BroadcastProgress calls made for it
    hub,         \* the Run loop of the hub: where it stands and what it holds
    hclients,    \* h.clients: subscription key -> set of registered clients
    conns,       \* the Client objects: client -> its key, send channel and pumps
    clock        \* number of BroadcastProgress calls the hub has seen (time.Now())

jqVars == <<jobs, queue, activeJobs, mu, maxWorkers, workers, nextId, subs, ret,
            cancelled, invoked, events>>
hubVars == <<hub, hclients, conns, clock>>
vars == <<jobs, queue, activeJobs, mu, maxWorkers, workers, nextId, subs, ret,
          cancelled, invoked, events, hub, hclients, conns, clock>>

\* The nil job pointer.
NoJob == 0
NoRet == [op |-> "none", id |-> NoJob, ok |-> FALSE, status |-> "", progress |-> 0,
          total |-> 0]
\* The pointer AddJob returns.
AddJobRet(id) ==
    [op |-> "AddJob", id |-> id, ok |-> TRUE, status |-> "", progress |-> 0, total |-> 0]
\* CancelJob's boolean.
CancelRet(id, ok) ==
    [op |-> "CancelJob", id |-> id, ok |-> ok, status |-> "", progress |-> 0, total |-> 0]
\* The return of a call that yields no value (UpdateJobProgress, SetJobStatus).
VoidRet(op, id) ==
    [op |-> op, id |-> id, ok |-> TRUE, status |-> "", progress |-> 0, total |-> 0]
\* The "job" member of the body a Queue* handler writes with status 201.
QueueRet(job) ==
    [op |-> "Queue", id |-> job.ID, ok |-> TRUE, status |-> job.Status,
     progress |-> job.Progress, total |-> job.Total]

Range(s) == {s[i] : i \in 1..Len(s)}

\* ------------------------------------------------------------- DownloadJob
DownloadJob(id, jobType, itemID, title, artist) ==
    [ID |-> id, Type |-> jobType, Status |-> JobStatusQueued, ItemID |-> itemID,
     Title |-> title, Artist |-> artist, Progress |-> 0, Total |-> 1,
     Error |-> "", StartedAt |-> FALSE, CompletedAt |-> FALSE]

\* float64(progress) / float64(total) * 100, kept exact as a fraction;
\* den = 0 stands for the NaN (0/0) or +Inf (p/0) the division yields.
Percent(progress, total) == [num |-> progress * 100, den |-> total]
Hundred == [num |-> 100, den |-> 1]

ProgressMessage(jobID, msgType, status, currentFile, speed, message, progress) ==
    [JobID |-> jobID, Type |-> msgType, Progress |-> progress, Status |-> status,
     CurrentFile |-> currentFile, Speed |-> speed, Message |-> message]

\* hub.BroadcastProgress as seen from the registry: the call is recorded.
BroadcastProgress(ev, jobID, msgType, status, currentFile, speed, message, progress) ==
    [ev EXCEPT ![jobID] = Append(@,
        ProgressMessage(jobID, msgType, status, currentFile, speed, message, progress))]

\* --------------------------------------------------------- hub values
\* The subscription key of the "all jobs" endpoint.
AllKey == "all"
\* The job identifiers (UUID strings) the hub sees in events and in job-scoped
\* subscriptions.
JobKeys == {"job-1", "job-2"}
\* The key each connection asks for: two connections that can share a job id,
\* one of them free to watch another job, and one "all jobs" connection.
Subscription(c) ==
    CASE c = "k1" -> {"job-1"}
      [] c = "k2" -> JobKeys
      [] OTHER -> {AllKey}

\* types.ProgressMessage as BroadcastProgress builds it, Timestamp included.
TimedMessage(jobID, msgType, status, currentFile, speed, message, progress, t) ==
    [JobID |-> jobID, Type |-> msgType, Progress |-> progress, Status |-> status,
     CurrentFile |-> currentFile, Speed |-> speed, Message |-> message,
     Timestamp |-> t]

NoClient == ""
NoMessage == TimedMessage("", "", "", "", "", "", Percent(0, 1), 0)
\* A connection that has not been opened yet.
NoConn == [jobID |-> "", send |-> <<>>, closed |-> FALSE, rd |-> "none",
           wr |-> "none", since |-> 0, got |-> 0]

\* ------------------------------------------------------------------- Init
Init ==
    /\ jobs = <<>>
    /\ queue = <<>>
    /\ activeJobs = {}
    /\ mu = "free"
    /\ maxWorkers \in 1..MaxWorkers
    /\ workers = <<>>
    /\ nextId = 1
    /\ subs = [s \in AllCallers |-> [pc |-> "idle", job |-> NoJob]]
    /\ ret = NoRet
    /\ cancelled = <<>>
    /\ invoked = {}
    /\ events = <<>>
    /\ hub = [pc |-> "select", client |-> NoClient, message |-> NoMessage]
    /\ hclients = <<>>
    /\ conns = [c \in ClientIds |-> NoConn]
    /\ clock = 0

\* ------------------------------------------------------------------ Start
\* Mutant: the loop of Start runs once too often (i <= jq.maxWorkers).
StartedWorkers_OneMore(n) ==
    [w \in 1..(n + 1) |->
        [pc |-> "recv", job |-> NoJob, failed |-> FALSE, err |-> "", n |-> 0]]

\* for i := 0; i < jq.maxWorkers; i++ { go jq.worker() }
StartedWorkers(n) ==
    [w \in 1..n |-> [pc |-> "recv", job |-> NoJob, failed |-> FALSE, err |-> "", n |-> 0]]

Start ==
    /\ workers = <<>>
    /\ workers' = StartedWorkers(maxWorkers)
    /\ ret' = NoRet
    /\ UNCHANGED <<jobs, queue, activeJobs, mu, maxWorkers, nextId, subs,
                   cancelled, invoked, events>>
    /\ UNCHANGED hubVars

\* ----------------------------------------------------------------- AddJob
\* Where the caller stands once AddJob has returned job id: a handler still
\* has to serialise the job into its response, a direct caller is done.
Returned(s, id) ==
    IF s \in Submitters THEN [pc |-> "respond", job |-> id]
                        ELSE [pc |-> "idle", job |-> NoJob]

\* Mutant: the identifier is derived from the number of waiting jobs.
NewUUID_FromQueue == Len(queue) + 1

\* uuid.New().String(): a value no earlier call returned.
NewUUID == nextId

\* jq.jobs[job.ID] = job
PutJob(js, job) ==
    [k \in DOMAIN js \cup {job.ID} |-> IF k = job.ID THEN job ELSE js[k]]

\* job, exists := jq.jobs[id]; the job is NoJob (nil) when exists is false.
GetJob(js, id) ==
    IF id \in DOMAIN js THEN [exists |-> TRUE, job |-> js[id].ID]
                        ELSE [exists |-> FALSE, job |-> NoJob]

\* The jobs of the slice GetAllJobs builds (map order, so taken as a set).
GetAllJobs(js) == {js[id].ID : id \in DOMAIN js}

\* Mutant: AddJob announces the queued job to the Hub.
AddJob_Broadcasts(s, jobType, itemID, title, artist) ==
    /\ subs[s].pc = "idle"
    /\ mu = "free"
    /\ LET job == DownloadJob(NewUUID, jobType, itemID, title, artist) IN
        /\ jobs' = PutJob(jobs, job)
        /\ events' = [k \in DOMAIN events \cup {job.ID} |->
                        IF k \in DOMAIN events
                          THEN events[k]
                          ELSE <<ProgressMessage(job.ID, "status", job.Status, "", "",
                                                 job.Status, Percent(0, 1))>>]
        /\ nextId' = nextId + 1
        /\ IF Len(queue) < QueueCap
             THEN /\ queue' = Append(queue, job.ID)
                  /\ mu' = "free"
                  /\ subs' = [subs EXCEPT ![s] = Returned(s, job.ID)]
                  /\ ret' = AddJobRet(job.ID)
             ELSE /\ queue' = queue
                  /\ mu' = s
                  /\ subs' = [subs EXCEPT ![s] = [pc |-> "send", job |-> job.ID]]
                  /\ ret' = NoRet
    /\ UNCHANGED <<activeJobs, maxWorkers, workers, cancelled, invoked>>
    /\ UNCHANGED hubVars

\* AddJob up to and including the send on jq.queue.  With room in the channel
\* the whole method runs inside one critical section; with the channel full
\* the caller stays blocked in the send, still holding jq.mu.
AddJob(s, jobType, itemID, title, artist) ==
    /\ subs[s].pc = "idle"
    /\ mu = "free"
    /\ LET job == DownloadJob(NewUUID, jobType, itemID, title, artist) IN
        /\ jobs' = PutJob(jobs, job)
        /\ events' = [k \in DOMAIN events \cup {job.ID} |->
                        IF k \in DOMAIN events THEN events[k] ELSE <<>>]
        /\ nextId' = nextId + 1
        /\ IF Len(queue) < QueueCap
             THEN /\ queue' = Append(queue, job.ID)
                  /\ mu' = "free"
                  /\ subs' = [subs EXCEPT ![s] = Returned(s, job.ID)]
                  /\ ret' = AddJobRet(job.ID)
             ELSE /\ queue' = queue
                  /\ mu' = s
                  /\ subs' = [subs EXCEPT ![s] = [pc |-> "send", job |-> job.ID]]
                  /\ ret' = NoRet
    /\ UNCHANGED <<activeJobs, maxWorkers, workers, cancelled, invoked>>
    /\ UNCHANGED hubVars

\* The blocked send of AddJob completes once the channel has room; the
\* deferred Unlock runs and AddJob returns the pointer.
AddJobSend(s) ==
    /\ subs[s].pc = "send"
    /\ mu = s
    /\ Len(queue) < QueueCap
    /\ queue' = Append(queue, subs[s].job)
    /\ mu' = "free"
    /\ subs' = [subs EXCEPT ![s] = Returned(s, subs[s].job)]
    /\ ret' = AddJobRet(subs[s].job)
    /\ UNCHANGED <<jobs, activeJobs, maxWorkers, workers, nextId, cancelled, invoked, events>>
    /\ UNCHANGED hubVars

\* QueueAlbum / QueueTrack / QueueArtist after AddJob returned: c.JSON
\* serialises the job behind the returned pointer, without the lock.
QueueRespond(s) ==
    /\ subs[s].pc = "respond"
    /\ subs' = [subs EXCEPT ![s] = [pc |-> "idle", job |-> NoJob]]
    /\ ret' = QueueRet(jobs[subs[s].job])
    /\ UNCHANGED <<jobs, queue, activeJobs, mu, maxWorkers, workers, nextId,
                   cancelled, invoked, events>>
    /\ UNCHANGED hubVars

\* -------------------------------------------------------------- CancelJob
\* Mutant: a processing job can be cancelled as well.
CancelJob_AlsoProcessing(id) ==
    /\ mu = "free"
    /\ IF id \in DOMAIN jobs
          /\ jobs[id].Status \in {JobStatusQueued, JobStatusProcessing}
         THEN /\ jobs' = [jobs EXCEPT ![id].Status = JobStatusCancelled,
                                      ![id].CompletedAt = TRUE]
              /\ ret' = CancelRet(id, TRUE)
              /\ cancelled' = [k \in DOMAIN cancelled \cup {id} |->
                                 IF k = id
                                   THEN (IF id \in Range(queue) THEN "inQueue"
                                                                ELSE "dequeued")
                                   ELSE cancelled[k]]
         ELSE /\ ret' = CancelRet(id, FALSE)
              /\ UNCHANGED <<jobs, cancelled>>
    /\ UNCHANGED <<queue, activeJobs, mu, maxWorkers, workers, nextId, subs,
                   invoked, events>>
    /\ UNCHANGED hubVars

\* Mutant: only a job still waiting in the channel can be cancelled.
CancelJob_OnlyInQueue(id) ==
    /\ mu = "free"
    /\ IF id \in DOMAIN jobs /\ jobs[id].Status = JobStatusQueued
          /\ id \in Range(queue)
         THEN /\ jobs' = [jobs EXCEPT ![id].Status = JobStatusCancelled,
                                      ![id].CompletedAt = TRUE]
              /\ ret' = CancelRet(id, TRUE)
              /\ cancelled' = [k \in DOMAIN cancelled \cup {id} |->
                                 IF k = id THEN "inQueue" ELSE cancelled[k]]
         ELSE /\ ret' = CancelRet(id, FALSE)
              /\ UNCHANGED <<jobs, cancelled>>
    /\ UNCHANGED <<queue, activeJobs, mu, maxWorkers, workers, nextId, subs,
                   invoked, events>>
    /\ UNCHANGED hubVars

CancelJob_AlsoFailed(id) ==
    /\ mu = "free"
    /\ IF id \in DOMAIN jobs /\ jobs[id].Status \in {JobStatusQueued, JobStatusFailed}
         THEN /\ jobs' = [jobs EXCEPT ![id].Status = JobStatusCancelled,
                                      ![id].CompletedAt = TRUE]
              /\ ret' = CancelRet(id, TRUE)
              /\ cancelled' = [k \in DOMAIN cancelled \cup {id} |->
                                 IF k = id
                                   THEN (IF id \in Range(queue) THEN "inQueue"
                                                                ELSE "dequeued")
                                   ELSE cancelled[k]]
         ELSE /\ ret' = CancelRet(id, FALSE)
              /\ UNCHANGED <<jobs, cancelled>>
    /\ UNCHANGED <<queue, activeJobs, mu, maxWorkers, workers, nextId, subs,
                   invoked, events>>
    /\ UNCHANGED hubVars

CancelJob(id) ==
    /\ mu = "free"
    /\ IF id \in DOMAIN jobs /\ jobs[id].Status = JobStatusQueued
         THEN /\ jobs' = [jobs EXCEPT ![id].Status = JobStatusCancelled,
                                      ![id].CompletedAt = TRUE]
              /\ ret' = CancelRet(id, TRUE)
              /\ cancelled' = [k \in DOMAIN cancelled \cup {id} |->
                                 IF k = id
                                   THEN (IF id \in Range(queue) THEN "inQueue"
                                                                ELSE "dequeued")
                                   ELSE cancelled[k]]
         ELSE /\ ret' = CancelRet(id, FALSE)
              /\ UNCHANGED <<jobs, cancelled>>
    /\ UNCHANGED <<queue, activeJobs, mu, maxWorkers, workers, nextId, subs,
                   invoked, events>>
    /\ UNCHANGED hubVars

\* ------------------------------------------- UpdateJobProgress, SetJobStatus
CurrentFile(progress, total) ==
    IF progress < total
      THEN "Track " \o ToString(progress + 1) \o " of " \o ToString(total)
      ELSE ""

UpdateJobProgress_Upsert(id, progress, total) ==
    /\ jobs' = [k \in DOMAIN jobs \cup {id} |->
                  IF k = id
                    THEN [(IF id \in DOMAIN jobs THEN jobs[id]
                           ELSE DownloadJob(id, "", "", "", ""))
                             EXCEPT !.Progress = progress, !.Total = total]
                    ELSE jobs[k]]
    /\ UNCHANGED events

\* The body of UpdateJobProgress inside its critical section.
UpdateJobProgress(id, progress, total) ==
    IF id \in DOMAIN jobs
      THEN /\ jobs' = [jobs EXCEPT ![id].Progress = progress, ![id].Total = total]
           /\ events' =
                IF total > 0
                  THEN BroadcastProgress(events, id, "progress", jobs[id].Status,
                         CurrentFile(progress, total), "",
                         "Downloaded " \o ToString(progress) \o " of "
                            \o ToString(total) \o " tracks",
                         Percent(progress, total))
                  ELSE events
      ELSE UNCHANGED <<jobs, events>>

\* Mutant: the percentage of a completed job is computed like any other.
SetJobStatus_PercentNotForced(id, status, errorMsg) ==
    IF id \in DOMAIN jobs
      THEN LET job == jobs[id]
               stamped ==
                 IF status = JobStatusProcessing /\ ~job.StartedAt
                   THEN [job EXCEPT !.Status = status,
                                    !.Error = IF errorMsg # "" THEN errorMsg ELSE @,
                                    !.StartedAt = TRUE]
                   ELSE IF status \in TerminalStatuses
                     THEN [job EXCEPT !.Status = status,
                                      !.Error = IF errorMsg # "" THEN errorMsg ELSE @,
                                      !.CompletedAt = TRUE]
                     ELSE [job EXCEPT !.Status = status,
                                      !.Error = IF errorMsg # "" THEN errorMsg ELSE @]
               msgType == IF status = JobStatusCompleted THEN "complete"
                          ELSE IF status = JobStatusFailed THEN "error"
                          ELSE "status"
               message == IF status = JobStatusCompleted
                            THEN job.Title \o " download completed"
                          ELSE IF status = JobStatusFailed THEN errorMsg
                          ELSE IF status = JobStatusProcessing
                            THEN "Started downloading " \o job.Title
                          ELSE status
               progress == Percent(job.Progress, job.Total)
           IN /\ jobs' = [jobs EXCEPT ![id] = stamped]
              /\ activeJobs' =
                   IF status = JobStatusProcessing /\ ~job.StartedAt
                     THEN activeJobs \cup {id}
                   ELSE IF status \in TerminalStatuses
                     THEN activeJobs \ {id}
                   ELSE activeJobs
              /\ events' = BroadcastProgress(events, id, msgType, status, "", "",
                                             message, progress)
      ELSE UNCHANGED <<jobs, activeJobs, events>>

\* The body of SetJobStatus inside its critical section.
SetJobStatus(id, status, errorMsg) ==
    IF id \in DOMAIN jobs
      THEN LET job == jobs[id]
               stamped ==
                 IF status = JobStatusProcessing /\ ~job.StartedAt
                   THEN [job EXCEPT !.Status = status,
                                    !.Error = IF errorMsg # "" THEN errorMsg ELSE @,
                                    !.StartedAt = TRUE]
                   ELSE IF status \in TerminalStatuses
                     THEN [job EXCEPT !.Status = status,
                                      !.Error = IF errorMsg # "" THEN errorMsg ELSE @,
                                      !.CompletedAt = TRUE]
                     ELSE [job EXCEPT !.Status = status,
                                      !.Error = IF errorMsg # "" THEN errorMsg ELSE @]
               msgType == IF status = JobStatusCompleted THEN "complete"
                          ELSE IF status = JobStatusFailed THEN "error"
                          ELSE "status"
               message == IF status = JobStatusCompleted
                            THEN job.Title \o " download completed"
                          ELSE IF status = JobStatusFailed THEN errorMsg
                          ELSE IF status = JobStatusProcessing
                            THEN "Started downloading " \o job.Title
                          ELSE status
               progress == IF status = JobStatusCompleted THEN Hundred
                           ELSE Percent(job.Progress, job.Total)
           IN /\ jobs' = [jobs EXCEPT ![id] = stamped]
              /\ activeJobs' =
                   IF status = JobStatusProcessing /\ ~job.StartedAt
                     THEN activeJobs \cup {id}
                   ELSE IF status \in TerminalStatuses
                     THEN activeJobs \ {id}
                   ELSE activeJobs
              /\ events' = BroadcastProgress(events, id, msgType, status, "", "",
                                             message, progress)
      ELSE UNCHANGED <<jobs, activeJobs, events>>

\* UpdateJobProgress and SetJobStatus called through the JobQueue interface
\* by a caller other than a worker.
CallUpdateJobProgress(id, progress, total) ==
    /\ mu = "free"
    /\ UpdateJobProgress(id, progress, total)
    /\ ret' = VoidRet("UpdateJobProgress", id)
    /\ UNCHANGED <<queue, activeJobs, mu, maxWorkers, workers, nextId, subs,
                   cancelled, invoked>>
    /\ UNCHANGED hubVars

CallSetJobStatus(id, status, errorMsg) ==
    /\ mu = "free"
    /\ SetJobStatus(id, status, errorMsg)
    /\ ret' = VoidRet("SetJobStatus", id)
    /\ UNCHANGED <<queue, mu, maxWorkers, workers, nextId, subs, cancelled, invoked>>
    /\ UNCHANGED hubVars

\* ------------------------------------------------------------------ worker
SetWorker(w, pc, job, failed, err, n) ==
    workers' = [workers EXCEPT ![w] =
                  [pc |-> pc, job |-> job, failed |-> failed, err |-> err, n |-> n]]

\* for job := range jq.queue: the receive from the channel.
\* Mutant: the receive serves a sender blocked on the full channel ahead of
\* the jobs buffered in it.
WorkerRecv_FromSender(w) ==
    /\ w \in DOMAIN workers
    /\ workers[w].pc = "recv"
    /\ queue # <<>>
    /\ IF \E s \in AllCallers : subs[s].pc = "send"
         THEN LET s == CHOOSE t \in AllCallers : subs[t].pc = "send" IN
                /\ SetWorker(w, "check", subs[s].job, FALSE, "", 0)
                /\ subs' = [subs EXCEPT ![s] = Returned(s, subs[s].job)]
                /\ mu' = "free"
                /\ ret' = AddJobRet(subs[s].job)
                /\ queue' = queue
         ELSE /\ SetWorker(w, "check", Head(queue), FALSE, "", 0)
              /\ queue' = Tail(queue)
              /\ ret' = NoRet
              /\ UNCHANGED <<mu, subs>>
    /\ UNCHANGED <<jobs, activeJobs, maxWorkers, nextId, cancelled, invoked, events>>
    /\ UNCHANGED hubVars

\* Mutant: the receive hands out the head of the channel and leaves it there.
WorkerRecv_LeavesInQueue(w) ==
    /\ w \in DOMAIN workers
    /\ workers[w].pc = "recv"
    /\ queue # <<>>
    /\ queue' = queue
    /\ SetWorker(w, "check", Head(queue), FALSE, "", 0)
    /\ ret' = NoRet
    /\ UNCHANGED <<jobs, activeJobs, mu, maxWorkers, nextId, subs, cancelled, invoked, events>>
    /\ UNCHANGED hubVars

WorkerRecv(w) ==
    /\ w \in DOMAIN workers
    /\ workers[w].pc = "recv"
    /\ queue # <<>>
    /\ queue' = Tail(queue)
    /\ SetWorker(w, "check", Head(queue), FALSE, "", 0)
    /\ ret' = NoRet
    /\ UNCHANGED <<jobs, activeJobs, mu, maxWorkers, nextId, subs, cancelled, invoked, events>>
    /\ UNCHANGED hubVars

\* Mutant: the worker starts on the job without recording processing.
WorkerCheck_StraightToWork(w) ==
    /\ w \in DOMAIN workers
    /\ workers[w].pc = "check"
    /\ IF jobs[workers[w].job].Status = JobStatusCancelled
         THEN SetWorker(w, "recv", NoJob, FALSE, "", 0)
         ELSE SetWorker(w, "resolve", workers[w].job, FALSE, "", 0)
    /\ ret' = NoRet
    /\ UNCHANGED <<jobs, queue, activeJobs, mu, maxWorkers, nextId, subs,
                   cancelled, invoked, events>>
    /\ UNCHANGED hubVars

\* Mutant: the worker does not look at the job's status after the receive.
WorkerCheck_NoCheck(w) ==
    /\ w \in DOMAIN workers
    /\ workers[w].pc = "check"
    /\ SetWorker(w, "setProcessing", workers[w].job, FALSE, "", 0)
    /\ ret' = NoRet
    /\ UNCHANGED <<jobs, queue, activeJobs, mu, maxWorkers, nextId, subs,
                   cancelled, invoked, events>>
    /\ UNCHANGED hubVars

\* if job.Status == types.JobStatusCancelled { continue }: read without the lock.
WorkerCheck(w) ==
    /\ w \in DOMAIN workers
    /\ workers[w].pc = "check"
    /\ IF jobs[workers[w].job].Status = JobStatusCancelled
         THEN SetWorker(w, "recv", NoJob, FALSE, "", 0)
         ELSE SetWorker(w, "setProcessing", workers[w].job, FALSE, "", 0)
    /\ ret' = NoRet
    /\ UNCHANGED <<jobs, queue, activeJobs, mu, maxWorkers, nextId, subs,
                   cancelled, invoked, events>>
    /\ UNCHANGED hubVars

\* jq.SetJobStatus(job.ID, types.JobStatusProcessing, "")
WorkerSetProcessing(w) ==
    /\ w \in DOMAIN workers
    /\ workers[w].pc = "setProcessing"
    /\ mu = "free"
    /\ SetJobStatus(workers[w].job, JobStatusProcessing, "")
    /\ SetWorker(w, "resolve", workers[w].job, FALSE, "", 0)
    /\ ret' = NoRet
    /\ UNCHANGED <<queue, mu, maxWorkers, nextId, subs, cancelled, invoked>>
    /\ UNCHANGED hubVars

\* What the provider's metadata carries for an item.
ProviderTitle == "Title"
ProviderArtist == "Artist"

\* Mutant: the cause is left out of the wrapped error (no %w).
MetadataError_NoCause(jobType, m) == "failed to get " \o jobType \o " metadata"

\* fmt.Errorf("failed to get album metadata: %w", err), and likewise for the
\* other kinds.
MetadataError(jobType, m) == "failed to get " \o jobType \o " metadata: " \o m

\* api.NewAlbum / api.NewTrack / api.NewArtist returns: an error, or the
\* metadata, which the worker writes into the job (without the lock).
WorkerResolve(w) ==
    /\ w \in DOMAIN workers
    /\ workers[w].pc = "resolve"
    /\ LET id == workers[w].job
           jobType == jobs[id].Type
       IN /\ invoked' = invoked \cup {id}
          /\ \/ \E m \in ProviderErrors :
                  /\ SetWorker(w, "finish", id, TRUE, MetadataError(jobType, m), 0)
                  /\ UNCHANGED jobs
             \/ \E n \in (IF jobType = "track" THEN {1} ELSE UnitCounts) :
                  /\ jobs' = [jobs EXCEPT
                        ![id].Title = IF jobType = "artist"
                                        THEN ProviderArtist \o " (Discography)"
                                        ELSE ProviderTitle,
                        ![id].Artist = ProviderArtist]
                  /\ SetWorker(w, "progress0", id, FALSE, "", n)
    /\ ret' = NoRet
    /\ UNCHANGED <<queue, activeJobs, mu, maxWorkers, nextId, subs, cancelled, events>>
    /\ UNCHANGED hubVars

\* jq.UpdateJobProgress(job.ID, 0, n) after the metadata was written.
WorkerProgress0(w) ==
    /\ w \in DOMAIN workers
    /\ workers[w].pc = "progress0"
    /\ mu = "free"
    /\ UpdateJobProgress(workers[w].job, 0, workers[w].n)
    /\ SetWorker(w, "download", workers[w].job, FALSE, "", workers[w].n)
    /\ ret' = NoRet
    /\ UNCHANGED <<queue, activeJobs, mu, maxWorkers, nextId, subs, cancelled, invoked>>
    /\ UNCHANGED hubVars

\* album.Download / track.Download / artist.Download returns.  Only
\* processTrackJob wraps the error and reports progress 1 of 1 on success.
WorkerDownload(w) ==
    /\ w \in DOMAIN workers
    /\ workers[w].pc = "download"
    /\ LET id == workers[w].job
           jobType == jobs[id].Type
       IN \/ \E m \in ProviderErrors :
               SetWorker(w, "finish", id, TRUE,
                         IF jobType = "track" THEN "failed to download track: " \o m
                                              ELSE m,
                         workers[w].n)
          \/ SetWorker(w, IF jobType = "track" THEN "progress1" ELSE "finish",
                       id, FALSE, "", workers[w].n)
    /\ ret' = NoRet
    /\ UNCHANGED <<jobs, queue, activeJobs, mu, maxWorkers, nextId, subs,
                   cancelled, invoked, events>>
    /\ UNCHANGED hubVars

\* Mutant: processTrackJob returns without the final UpdateJobProgress.
WorkerProgress1_Skipped(w) ==
    /\ w \in DOMAIN workers
    /\ workers[w].pc = "progress1"
    /\ mu = "free"
    /\ SetWorker(w, "finish", workers[w].job, FALSE, "", workers[w].n)
    /\ ret' = NoRet
    /\ UNCHANGED <<jobs, events, queue, activeJobs, mu, maxWorkers, nextId, subs,
                   cancelled, invoked>>
    /\ UNCHANGED hubVars

\* jq.UpdateJobProgress(job.ID, 1, 1) of processTrackJob.
WorkerProgress1(w) ==
    /\ w \in DOMAIN workers
    /\ workers[w].pc = "progress1"
    /\ mu = "free"
    /\ UpdateJobProgress(workers[w].job, 1, 1)
    /\ SetWorker(w, "finish", workers[w].job, FALSE, "", workers[w].n)
    /\ ret' = NoRet
    /\ UNCHANGED <<queue, activeJobs, mu, maxWorkers, nextId, subs, cancelled, invoked>>
    /\ UNCHANGED hubVars

\* Mutant: a provider error ends the worker loop (return instead of the next
\* iteration).
WorkerFinish_StopsOnError(w) ==
    /\ w \in DOMAIN workers
    /\ workers[w].pc = "finish"
    /\ mu = "free"
    /\ IF workers[w].failed
         THEN /\ SetJobStatus(workers[w].job, JobStatusFailed, workers[w].err)
              /\ SetWorker(w, "stopped", NoJob, FALSE, "", 0)
         ELSE /\ SetJobStatus(workers[w].job, JobStatusCompleted, "")
              /\ SetWorker(w, "recv", NoJob, FALSE, "", 0)
    /\ ret' = NoRet
    /\ UNCHANGED <<queue, mu, maxWorkers, nextId, subs, cancelled, invoked>>
    /\ UNCHANGED hubVars

\* if err != nil { SetJobStatus(failed, err.Error()) } else { SetJobStatus(completed, "") }
\* and back to the receive.
WorkerFinish(w) ==
    /\ w \in DOMAIN workers
    /\ workers[w].pc = "finish"
    /\ mu = "free"
    /\ IF workers[w].failed
         THEN SetJobStatus(workers[w].job, JobStatusFailed, workers[w].err)
         ELSE SetJobStatus(workers[w].job, JobStatusCompleted, "")
    /\ SetWorker(w, "recv", NoJob, FALSE, "", 0)
    /\ ret' = NoRet
    /\ UNCHANGED <<queue, mu, maxWorkers, nextId, subs, cancelled, invoked>>
    /\ UNCHANGED hubVars

WorkerIds == 1..MaxWorkers

\* --------------------------------------------------------------------- hub
HubSelect == [pc |-> "select", client |-> NoClient, message |-> NoMessage]

\* The clients filed under a key (h.clients[key], nil when absent).
ClientsOf(hc, key) == IF key \in DOMAIN hc THEN hc[key] ELSE {}

\* h.clients with the set of a key replaced; an empty set deletes the key.
WithClients(hc, key, set) ==
    [k \in (IF set = {} THEN DOMAIN hc \ {key} ELSE DOMAIN hc \cup {key}) |->
        IF k = key THEN set ELSE hc[k]]

\* NewClient, hub.RegisterClient and StartPumps of the WebSocket handlers: the
\* send on h.register is taken by the Run loop when it waits in its select.
RegisterClient(c, jobID) ==
    /\ conns[c] = NoConn
    /\ hub.pc = "select"
    /\ hub' = [pc |-> "register", client |-> c, message |-> NoMessage]
    /\ conns' = [conns EXCEPT ![c] = [NoConn EXCEPT !.jobID = jobID,
                                                   !.rd = "reading",
                                                   !.wr = "writing"]]
    /\ UNCHANGED <<hclients, clock>>
    /\ UNCHANGED jqVars

HubRegister_Lost ==
    /\ hub.pc = "register"
    /\ hub' = HubSelect
    /\ UNCHANGED <<hclients, conns, clock>>
    /\ UNCHANGED jqVars

\* Run, case client := <-h.register.
HubRegister ==
    /\ hub.pc = "register"
    /\ hclients' = WithClients(hclients, conns[hub.client].jobID,
                               ClientsOf(hclients, conns[hub.client].jobID)
                                  \cup {hub.client})
    /\ conns' = [conns EXCEPT ![hub.client].since = clock]
    /\ hub' = HubSelect
    /\ UNCHANGED clock
    /\ UNCHANGED jqVars

\* The identifier of a job as it appears in a request path and in events.
JobKey(id) == "job-" \o ToString(id)

\* What the handler answers when it refuses a subscription for jobID.
NotFoundRet(jobID) ==
    [op |-> "HandleWebSocketConnection", id |-> NoJob, ok |-> FALSE,
     status |-> jobID, progress |-> 0, total |-> 0]

HandleWebSocketConnection_NoCheck(c, jobID) == RegisterClient(c, jobID)

\* GET /ws/downloads/:jobId: 404 unless GetJob finds the job; otherwise the
\* connection is upgraded, wrapped in a Client and registered.
HandleWebSocketConnection(c, jobID) ==
    /\ mu = "free"
    /\ IF \E id \in JobIds : JobKey(id) = jobID /\ GetJob(jobs, id).exists
         THEN RegisterClient(c, jobID)
         ELSE /\ conns[c] = NoConn
              /\ ret' = NotFoundRet(jobID)
              /\ UNCHANGED <<jobs, queue, activeJobs, mu, maxWorkers, workers,
                             nextId, subs, cancelled, invoked, events>>
              /\ UNCHANGED hubVars

\* GET /ws/downloads: the connection is registered under "all".
HandleWebSocketAllConnection(c) == RegisterClient(c, AllKey)

\* readPump: ReadMessage fails (peer gone, deadline, or the connection was
\* closed by writePump); the deferred UnregisterClient is next.
ClientReadFail(c) ==
    /\ conns[c].rd = "reading"
    /\ conns' = [conns EXCEPT ![c].rd = "unregister"]
    /\ UNCHANGED <<hub, hclients, clock>>
    /\ UNCHANGED jqVars

UnregisterClient_Direct(c) ==
    /\ conns[c].rd = "unregister"
    /\ hclients' = WithClients(hclients, conns[c].jobID,
                               ClientsOf(hclients, conns[c].jobID) \ {c})
    /\ conns' = [conns EXCEPT ![c].rd = "done", ![c].closed = TRUE]
    /\ UNCHANGED <<hub, clock>>
    /\ UNCHANGED jqVars

\* hub.UnregisterClient from readPump's defer: the send on h.unregister is
\* taken by the Run loop when it waits in its select; readPump ends.
UnregisterClient(c) ==
    /\ conns[c].rd = "unregister"
    /\ hub.pc = "select"
    /\ hub' = [pc |-> "unregister", client |-> c, message |-> NoMessage]
    /\ conns' = [conns EXCEPT ![c].rd = "done"]
    /\ UNCHANGED <<hclients, clock>>
    /\ UNCHANGED jqVars

HubUnregister_KeepsOpen ==
    /\ hub.pc = "unregister"
    /\ LET c == hub.client
           key == conns[c].jobID
       IN IF c \in ClientsOf(hclients, key)
            THEN hclients' = WithClients(hclients, key, hclients[key] \ {c})
            ELSE UNCHANGED hclients
    /\ hub' = HubSelect
    /\ UNCHANGED <<conns, clock>>
    /\ UNCHANGED jqVars

\* Mutant: the channel is closed but the client stays in the registry.
HubUnregister_KeepsFiled ==
    /\ hub.pc = "unregister"
    /\ LET c == hub.client
           key == conns[c].jobID
       IN IF c \in ClientsOf(hclients, key)
            THEN conns' = [conns EXCEPT ![c].closed = TRUE]
            ELSE UNCHANGED conns
    /\ hub' = HubSelect
    /\ UNCHANGED <<hclients, clock>>
    /\ UNCHANGED jqVars

\* Run, case client := <-h.unregister.
HubUnregister ==
    /\ hub.pc = "unregister"
    /\ LET c == hub.client
           key == conns[c].jobID
       IN IF c \in ClientsOf(hclients, key)
            THEN /\ hclients' = WithClients(hclients, key, hclients[key] \ {c})
                 /\ conns' = [conns EXCEPT ![c].closed = TRUE]
            ELSE UNCHANGED <<hclients, conns>>
    /\ hub' = HubSelect
    /\ UNCHANGED clock
    /\ UNCHANGED jqVars

HubBroadcastProgress_AlwaysDrops(jobID, msgType, status, currentFile, speed, message, progress) ==
    /\ clock' = clock + 1
    /\ UNCHANGED <<hub, hclients, conns>>
    /\ UNCHANGED jqVars

HubBroadcastProgress_Blocking(jobID, msgType, status, currentFile, speed, message, progress) ==
    /\ hub.pc = "select"
    /\ clock' = clock + 1
    /\ hub' = [pc |-> "broadcast", client |-> NoClient,
               message |-> TimedMessage(jobID, msgType, status, currentFile,
                                        speed, message, progress, clock + 1)]
    /\ UNCHANGED <<hclients, conns>>
    /\ UNCHANGED jqVars

\* hub.BroadcastProgress: the message is built and offered to the Run loop
\* with a non-blocking send on the unbuffered h.broadcast; it is taken only
\* if the loop waits in its select at that moment, and dropped otherwise.
HubBroadcastProgress(jobID, msgType, status, currentFile, speed, message, progress) ==
    /\ clock' = clock + 1
    /\ hub' = IF hub.pc = "select"
                THEN [pc |-> "broadcast", client |-> NoClient,
                      message |-> TimedMessage(jobID, msgType, status, currentFile,
                                               speed, message, progress, clock + 1)]
                ELSE hub
    /\ UNCHANGED <<hclients, conns>>
    /\ UNCHANGED jqVars

\* select { case client.send <- message: default: close(client.send) } for
\* one client of the fan-out.
Offer(conn, message) ==
    IF Len(conn.send) < SendCap
      THEN [conn EXCEPT !.send = Append(@, message),
                        !.got = message.Timestamp]
      ELSE [conn EXCEPT !.closed = TRUE]

Targets_JobOnly(hc, message) == ClientsOf(hc, message.JobID)

Targets_Everyone(hc, message) == UNION {hc[key] : key \in DOMAIN hc}

\* The clients a fan-out of the message goes to: those filed under its job
\* id, then those filed under "all".
Targets(hc, message) == ClientsOf(hc, message.JobID) \cup ClientsOf(hc, AllKey)

AfterFanOut_KeepsAll(hc, cs, key) == hc

AfterFanOut_DropsGroup(hc, cs, key) ==
    IF \E c \in ClientsOf(hc, key) : Len(cs[c].send) >= SendCap
      THEN WithClients(hc, key, {})
      ELSE hc

\* delete(clients, client) for the clients whose channel was full, and
\* delete(h.clients, key) for a key left without clients.
AfterFanOut(hc, cs, key) ==
    WithClients(hc, key, {c \in ClientsOf(hc, key) : Len(cs[c].send) < SendCap})

HubFanOut_KeepsMessage ==
    /\ hub.pc = "broadcast"
    /\ conns' = [c \in ClientIds |->
                   IF c \in Targets(hclients, hub.message)
                     THEN Offer(conns[c], hub.message)
                     ELSE conns[c]]
    /\ hclients' = AfterFanOut(AfterFanOut(hclients, conns, hub.message.JobID),
                               conns, AllKey)
    /\ UNCHANGED <<hub, clock>>
    /\ UNCHANGED jqVars

\* Run, case message := <-h.broadcast: the two loops over the clients.
HubFanOut ==
    /\ hub.pc = "broadcast"
    /\ conns' = [c \in ClientIds |->
                   IF c \in Targets(hclients, hub.message)
                     THEN Offer(conns[c], hub.message)
                     ELSE conns[c]]
    /\ hclients' = AfterFanOut(AfterFanOut(hclients, conns, hub.message.JobID),
                               conns, AllKey)
    /\ hub' = HubSelect
    /\ UNCHANGED clock
    /\ UNCHANGED jqVars

\* writePump, case message, ok := <-c.send with ok: WriteJSON(message).
ClientWrite(c) ==
    /\ conns[c].wr = "writing"
    /\ conns[c].send # <<>>
    /\ conns' = [conns EXCEPT ![c].send = Tail(@)]
    /\ UNCHANGED <<hub, hclients, clock>>
    /\ UNCHANGED jqVars

\* writePump, case message, ok := <-c.send with !ok: the channel is closed
\* and drained; the close message is written and writePump returns.
ClientWriteClosed(c) ==
    /\ conns[c].wr = "writing"
    /\ conns[c].send = <<>>
    /\ conns[c].closed
    /\ conns' = [conns EXCEPT ![c].wr = "done"]
    /\ UNCHANGED <<hub, hclients, clock>>
    /\ UNCHANGED jqVars

\* ------------------------------------------------------------------- Next
Next ==
    \/ Start
    \/ \E s \in Submitters, jobType \in JobTypes, itemID \in ItemIDs :
          nextId <= MaxJobs /\ AddJob(s, jobType, itemID, "", "")
    \/ \E s \in Submitters : AddJobSend(s)
    \/ \E s \in Submitters : QueueRespond(s)
    \/ \E id \in JobIds : CancelJob(id)
    \/ \E w \in WorkerIds : WorkerRecv(w)
    \/ \E w \in WorkerIds : WorkerCheck(w)
    \/ \E w \in WorkerIds : WorkerSetProcessing(w)
    \/ \E w \in WorkerIds : WorkerResolve(w)
    \/ \E w \in WorkerIds : WorkerProgress0(w)
    \/ \E w \in WorkerIds : WorkerDownload(w)
    \/ \E w \in WorkerIds : WorkerProgress1(w)
    \/ \E w \in WorkerIds : WorkerFinish(w)

Spec == Init /\ [][Next]_vars

\* ------------------------------------------------------- submission load
\* Enough submissions to fill the channel while a worker is busy: no
\* cancellation requests, track jobs only.
LoadJobs == QueueCap + 2
LoadJobIds == 1..LoadJobs

WorkerStep(w) ==
    \/ WorkerRecv(w)
    \/ WorkerCheck(w)
    \/ WorkerSetProcessing(w)
    \/ WorkerResolve(w)
    \/ WorkerProgress0(w)
    \/ WorkerDownload(w)
    \/ WorkerProgress1(w)
    \/ WorkerFinish(w)

LoadNext ==
    \/ Start
    \/ \E s \in Submitters, itemID \in ItemIDs :
          nextId <= LoadJobs /\ AddJob(s, "track", itemID, "", "")
    \/ \E s \in Submitters : AddJobSend(s)
    \/ \E s \in Submitters : QueueRespond(s)
    \/ \E w \in WorkerIds : WorkerStep(w)

LoadSpec == Init /\ [][LoadNext]_vars

\* ----------------------------------------------------------- direct calls
\* The queue driven through the JobQueue interface alone: direct callers
\* of AddJob and CancelJob, no HTTP handler in between.  AddJob, CancelJob,
\* Start and the worker's receive and check never read job.Type, so the
\* properties about submission, cancellation and the number of workers are
\* explored on runs whose jobs are all single tracks.
TrackNext ==
    \/ Start
    \/ \E s \in Callers, itemID \in ItemIDs :
          nextId <= MaxJobs /\ AddJob(s, "track", itemID, "", "")
    \/ \E s \in Callers : AddJobSend(s)
    \/ \E id \in JobIds : CancelJob(id)
    \/ \E w \in WorkerIds : WorkerStep(w)

TrackSpec == Init /\ [][TrackNext]_vars

\* A worker waits in its receive on an empty channel.
WorkerIdle ==
    /\ queue = <<>>
    /\ \E w \in DOMAIN workers : workers[w].pc = "recv"

\* Track submissions through the HTTP handlers that arrive only while a
\* worker is idle.
IdleNext ==
    \/ Start
    \/ \E s \in Submitters, itemID \in ItemIDs :
          /\ nextId <= MaxJobs
          /\ WorkerIdle
          /\ AddJob(s, "track", itemID, "", "")
    \/ \E s \in Submitters : QueueRespond(s)
    \/ \E w \in WorkerIds : WorkerStep(w)

IdleSpec == Init /\ [][IdleNext]_vars

\* ---------------------------------------------------------- mixed kinds
\* Jobs of every kind through the JobQueue interface, with cancellation: one
\* submission for each direct caller.
KindJobs == Cardinality(Callers)

KindNext ==
    \/ Start
    \/ \E s \in Callers, jobType \in JobTypes, itemID \in ItemIDs :
          nextId <= KindJobs /\ AddJob(s, jobType, itemID, "", "")
    \/ \E s \in Callers : AddJobSend(s)
    \/ \E id \in JobIds : CancelJob(id)
    \/ \E w \in WorkerIds : WorkerStep(w)

KindSpec == Init /\ [][KindNext]_vars

\* The call UpdateJobProgress(id, 50, 100) makes on the hub for a job.
ProgressCall(jobID) ==
    HubBroadcastProgress(jobID, "progress", JobStatusProcessing,
                         CurrentFile(50, 100), "",
                         "Downloaded 50 of 100 tracks", Percent(50, 100))

\* readPump: ReadMessage fails because writePump has returned and its
\* deferred conn.Close() closed the connection.
ClientReadClosed(c) ==
    /\ conns[c].rd = "reading"
    /\ conns[c].wr = "done"
    /\ conns' = [conns EXCEPT ![c].rd = "unregister"]
    /\ UNCHANGED <<hub, hclients, clock>>
    /\ UNCHANGED jqVars

\* writePump: WriteJSON of a message or the ping write fails; writePump
\* returns and its deferred conn.Close() runs.
ClientWriteFail(c) ==
    /\ conns[c].wr = "writing"
    /\ conns' = [conns EXCEPT ![c].wr = "done"]
    /\ UNCHANGED <<hub, hclients, clock>>
    /\ UNCHANGED jqVars

\* Track jobs of direct callers, with the registry's methods called for
\* identifiers that are not in the registry.
UnknownNext ==
    \/ Start
    \/ \E s \in Callers, itemID \in ItemIDs :
          nextId <= MaxJobs /\ AddJob(s, "track", itemID, "", "")
    \/ \E s \in Callers : AddJobSend(s)
    \/ \E w \in WorkerIds : WorkerStep(w)
    \/ \E id \in JobIds \ DOMAIN jobs : CancelJob(id)
    \/ \E id \in JobIds \ DOMAIN jobs : CallUpdateJobProgress(id, 1, 2)
    \/ \E id \in JobIds \ DOMAIN jobs :
          CallSetJobStatus(id, JobStatusCompleted, "")

UnknownSpec == Init /\ [][UnknownNext]_vars

\* -------------------------------------------------------------- the hub
\* The hub and its connections driven through the Hub interface: the
\* registry's BroadcastProgress calls are those UpdateJobProgress(id, 50, 100)
\* makes for a processing job.
HubNext ==
    \/ \E c \in ClientIds : \E jobID \in Subscription(c) : RegisterClient(c, jobID)
    \/ HubRegister
    \/ \E c \in ClientIds : ClientReadFail(c)
    \/ \E c \in ClientIds : UnregisterClient(c)
    \/ HubUnregister
    \/ \E jobID \in JobKeys :
          /\ clock < MaxEvents
          /\ HubBroadcastProgress(jobID, "progress", JobStatusProcessing,
                                  CurrentFile(50, 100), "",
                                  "Downloaded 50 of 100 tracks", Percent(50, 100))
    \/ HubFanOut
    \/ \E c \in ClientIds : ClientWrite(c)
    \/ \E c \in ClientIds : ClientWriteClosed(c)

\* NewHub next to the queue the server builds.
HubInit == Init /\ maxWorkers = MaxWorkers

HubSpec == HubInit /\ [][HubNext]_vars

\* The hub with connections whose peers stay connected: no read loop fails,
\* so a connection leaves the registry only when a fan-out finds its queue
\* full.  One event more than in HubSpec, so that events follow a drop.
DropEvents == MaxEvents + 1
DropNext ==
    \/ \E c \in ClientIds : \E jobID \in Subscription(c) : RegisterClient(c, jobID)
    \/ HubRegister
    \/ \E jobID \in JobKeys :
          /\ clock < DropEvents
          /\ HubBroadcastProgress(jobID, "progress", JobStatusProcessing,
                                  CurrentFile(50, 100), "",
                                  "Downloaded 50 of 100 tracks", Percent(50, 100))
    \/ HubFanOut
    \/ \E c \in ClientIds : ClientWrite(c)
    \/ \E c \in ClientIds : ClientWriteClosed(c)

DropSpec == HubInit /\ [][DropNext]_vars

\* Subscription requests arriving while direct callers add track jobs; no
\* worker is started, so the jobs stay queued.
SubscribeNext ==
    \/ \E s \in Callers, itemID \in ItemIDs :
          nextId <= MaxJobs /\ AddJob(s, "track", itemID, "", "")
    \/ \E c \in ClientIds, jobID \in JobKeys : HandleWebSocketConnection(c, jobID)
    \/ \E c \in ClientIds : HandleWebSocketAllConnection(c)
    \/ HubRegister

SubscribeSpec == HubInit /\ [][SubscribeNext]_vars

\* The life of connections to its end: every way a read or write loop can
\* stop, for one job-scoped and one wildcard connection.
TeardownClients == {"k2", "k3"}
TeardownNext ==
    \/ \E c \in TeardownClients : \E jobID \in Subscription(c) : RegisterClient(c, jobID)
    \/ HubRegister
    \/ \E c \in TeardownClients : ClientReadFail(c)
    \/ \E c \in TeardownClients : ClientReadClosed(c)
    \/ \E c \in TeardownClients : UnregisterClient(c)
    \/ HubUnregister
    \/ \E jobID \in JobKeys : clock < MaxEvents /\ ProgressCall(jobID)
    \/ HubFanOut
    \/ \E c \in TeardownClients : ClientWrite(c)
    \/ \E c \in TeardownClients : ClientWriteFail(c)
    \/ \E c \in TeardownClients : ClientWriteClosed(c)

TeardownSpec == HubInit /\ [][TeardownNext]_vars

\* The Run loop and the pumps are goroutines the scheduler keeps running: the
\* loop finishes the case it took; a read on a closed connection returns; the
\* write of a message taken from the queue ends within its deadline, with or
\* without an error (an idle write loop may go on pinging for ever); Go's
\* select picks among its ready cases at random, so a pending send on
\* h.unregister is taken.
FairTeardownSpec ==
    /\ TeardownSpec
    /\ WF_vars(HubRegister) /\ WF_vars(HubUnregister) /\ WF_vars(HubFanOut)
    /\ \A c \in TeardownClients :
          /\ SF_vars(UnregisterClient(c))
          /\ WF_vars(ClientReadClosed(c))
          /\ WF_vars(ClientWrite(c) \/ (conns[c].send # <<>> /\ ClientWriteFail(c)))
          /\ WF_vars(ClientWriteClosed(c))

\* The Go scheduler runs every runnable goroutine: the startup code reaches
\* Start, a handler that can proceed does, a worker that can take its next
\* step does (every provider call returns).
FairLoadSpec ==
    /\ LoadSpec
    /\ WF_vars(Start)
    /\ \A s \in Submitters : WF_vars(AddJobSend(s)) /\ WF_vars(QueueRespond(s))
    /\ \A w \in WorkerIds : WF_vars(WorkerStep(w))

\* ------------------------------------------------- from registry to hub
\* One job of any kind, from AddJob through the worker to the hub and on to
\* a connection of that job and a wildcard connection.  SetJobStatus and
\* UpdateJobProgress call hub.BroadcastProgress before they release jq.mu:
\* the call is a step of its own here, taken before the queue moves on, and
\* the Run loop and the write loops run alongside.
RelayClients == {"k1", "k3"}

\* Every BroadcastProgress call the registry has recorded was made on the hub.
HandedOver == \A id \in DOMAIN events : Len(events[id]) = clock

\* The BroadcastProgress call at the end of SetJobStatus or UpdateJobProgress.
HandOver ==
    \E id \in DOMAIN events :
        /\ clock < Len(events[id])
        /\ LET e == events[id][clock + 1]
           IN HubBroadcastProgress(JobKey(id), e.Type, e.Status, e.CurrentFile,
                                   e.Speed, e.Message, e.Progress)

RelayNext ==
    \/ Start
    \/ \E s \in Callers, jobType \in JobTypes, itemID \in ItemIDs :
          jobs = <<>> /\ AddJob(s, jobType, itemID, "", "")
    \/ \E id \in JobIds : HandedOver /\ CancelJob(id)
    \/ \E w \in WorkerIds : HandedOver /\ WorkerStep(w)
    \/ HandOver
    \/ \E c \in RelayClients : \E jobID \in Subscription(c) : RegisterClient(c, jobID)
    \/ HubRegister
    \/ HubFanOut
    \/ \E c \in RelayClients : ClientWrite(c)

RelaySpec == HubInit /\ [][RelayNext]_vars

\* ================================================================ properties
IsTerminal(j) == j \in DOMAIN jobs /\ jobs[j].Status \in TerminalStatuses

\* A CancelJob(id) call returns in this step.
CancelReturns(id) == ret'.op = "CancelJob" /\ ret'.id = id

\* The job has left jq.queue: some worker received it.
Dequeued(id) ==
    /\ id \in DOMAIN jobs
    /\ id \notin Range(queue)
    /\ \A s \in AllCallers : ~(subs[s].pc = "send" /\ subs[s].job = id)

\* A worker has recorded processing for the job (SetJobStatus stamps StartedAt
\* on the first such call and nothing clears it).
ProcessingRecorded(id) == id \in DOMAIN jobs /\ jobs[id].StartedAt

\* C1: CancelJob(id) returns true iff the job exists and is queued when the
\* call holds the lock; then the job becomes cancelled with a completion
\* time.  After a worker recorded processing, CancelJob(id) returns false.
C1_CancelJobResult ==
    [][\A id \in JobIds :
          CancelReturns(id) =>
            /\ ret'.ok <=> (id \in DOMAIN jobs /\ jobs[id].Status = JobStatusQueued)
            /\ ret'.ok => /\ jobs'[id].Status = JobStatusCancelled
                          /\ jobs'[id].CompletedAt
                          /\ \A k \in DOMAIN jobs \ {id} : jobs'[k] = jobs[k]
            /\ ~ret'.ok => jobs' = jobs
            /\ ProcessingRecorded(id) => ~ret'.ok]_vars

C1_Witness ==
    /\ ret.op = "CancelJob" /\ ~ret.ok
    /\ ret.id \in DOMAIN jobs
    /\ jobs[ret.id].Status = JobStatusProcessing
    /\ \E k \in DOMAIN jobs :
          /\ k \in DOMAIN cancelled
          /\ jobs[k].Status = JobStatusCancelled
          /\ jobs[k].CompletedAt

\* C2: a job's state moves only queued -> processing -> {completed, failed}
\* or queued -> cancelled; a terminal state is never left and a processing
\* job never becomes cancelled.
AllowedTransitions ==
    {<<JobStatusQueued, JobStatusProcessing>>,
     <<JobStatusProcessing, JobStatusCompleted>>,
     <<JobStatusProcessing, JobStatusFailed>>,
     <<JobStatusQueued, JobStatusCancelled>>}

C2_StateMachine ==
    [][\A j \in DOMAIN jobs :
          /\ j \in DOMAIN jobs'
          /\ jobs'[j].Status # jobs[j].Status =>
                <<jobs[j].Status, jobs'[j].Status>> \in AllowedTransitions]_vars

\* C3: for a job on which CancelJob returned true the provider is never
\* invoked and the job is never marked processing, completed or failed.
C3_CancelledNeverRuns ==
    \A j \in DOMAIN cancelled :
        /\ j \notin invoked
        /\ jobs[j].Status = JobStatusCancelled
        /\ ~jobs[j].StartedAt

\* C4 as claimed: CancelJob(id) returns false whenever a worker has already
\* dequeued the job, also before the worker recorded processing.
C4_FalseOnceDequeued ==
    [][\A id \in JobIds : (CancelReturns(id) /\ Dequeued(id)) => ~ret'.ok]_vars

\* C4 as amended: CancelJob(id) returns false whenever a worker has recorded
\* processing for the job; for a dequeued job that is still queued (no worker
\* has recorded processing and no earlier CancelJob succeeded) it returns true.
C4_FalseOnceProcessing ==
    [][\A id \in JobIds :
          CancelReturns(id) =>
            /\ ProcessingRecorded(id) => ~ret'.ok
            /\ (Dequeued(id) /\ ~ProcessingRecorded(id) /\ id \notin DOMAIN cancelled)
                  => ret'.ok]_vars

\* A CancelJob that returned true in the window between the dequeue and the
\* worker's SetJobStatus(processing).
C4_Witness ==
    /\ ret.op = "CancelJob" /\ ret.ok
    /\ cancelled[ret.id] = "dequeued"
    /\ \E w \in DOMAIN workers :
          workers[w].job = ret.id /\ workers[w].pc \in {"check", "setProcessing"}

\* C5: a CancelJob that runs while the job is still in the channel returns
\* true, and from then on the job shows cancelled, a completion time, no
\* start time and progress 0, also after a worker dequeues it.
C5_CancelBeforeDequeue ==
    /\ [][\A id \in JobIds :
            (CancelReturns(id) /\ id \in Range(queue) /\ id \notin DOMAIN cancelled)
              => ret'.ok]_vars
    /\ [](\A j \in DOMAIN cancelled :
            cancelled[j] = "inQueue" =>
              /\ jobs[j].Status = JobStatusCancelled
              /\ jobs[j].CompletedAt
              /\ ~jobs[j].StartedAt
              /\ jobs[j].Progress = 0
              /\ j \notin invoked)

\* The cancelled job was dequeued and skipped, and the worker went on.
C5_Witness ==
    \E j \in DOMAIN cancelled :
        /\ cancelled[j] = "inQueue"
        /\ Dequeued(j)
        /\ workers # <<>>
        /\ \A w \in DOMAIN workers : workers[w].job # j
        /\ jobs[j].Status = JobStatusCancelled

\* C6: every AddJob returns an identifier no earlier AddJob returned, and the
\* registry holds as many jobs as there were submissions, whichever callers
\* made them.  The identifier a call takes is one the registry does not hold,
\* the registry never loses an identifier, and the call returns the identifier
\* it took (at once, or after its blocked send), so no two calls return the
\* same one and no record is overwritten.
C6_UniqueIdentifiers ==
    /\ [][nextId' # nextId =>
            \E id \in DOMAIN jobs' \ DOMAIN jobs :
               /\ jobs'[id].ID = id
               /\ \/ ret' = AddJobRet(id)
                  \/ /\ ret'.op # "AddJob"
                     /\ \E s \in AllCallers :
                           /\ subs[s].pc # "send"
                           /\ subs'[s] = [pc |-> "send", job |-> id]]_vars
    /\ [][nextId' = nextId /\ ret'.op = "AddJob" =>
            \E s \in AllCallers :
               /\ subs[s] = [pc |-> "send", job |-> ret'.id]
               /\ subs'[s].pc # "send"]_vars
    /\ [][DOMAIN jobs \subseteq DOMAIN jobs']_vars
    /\ [](\A s, t \in AllCallers :
            (s # t /\ subs[s].job # NoJob) => subs[s].job # subs[t].job)
    /\ [](Cardinality(DOMAIN jobs) = nextId - 1)

\* The last submission of the run has just returned, after earlier ones.
C6_Witness ==
    /\ Cardinality(DOMAIN jobs) = MaxJobs
    /\ ret.op = "AddJob"
    /\ ret.id \in DOMAIN jobs
    /\ \E k \in DOMAIN jobs : k # ret.id
    /\ \A s \in AllCallers : subs[s].pc # "send"

NewJobs == DOMAIN jobs' \ DOMAIN jobs

\* C7: AddJob adds exactly one record (queued, progress 0, total 1, no start
\* or completion time), puts that job on the channel once, leaves every other
\* record unchanged and makes no BroadcastProgress call.
C7_AddJobEffect ==
    /\ [][nextId' # nextId =>
            /\ Cardinality(NewJobs) = 1
            /\ DOMAIN jobs \subseteq DOMAIN jobs'
            /\ \A k \in DOMAIN jobs : jobs'[k] = jobs[k]
            /\ \A k \in DOMAIN events : events'[k] = events[k]
            /\ \A id \in NewJobs :
                  /\ jobs'[id].ID = id
                  /\ jobs'[id].Status = JobStatusQueued
                  /\ jobs'[id].Progress = 0
                  /\ jobs'[id].Total = 1
                  /\ ~jobs'[id].StartedAt
                  /\ ~jobs'[id].CompletedAt
                  /\ events'[id] = <<>>
                  /\ \/ queue' = Append(queue, id)
                     \/ /\ Len(queue) = QueueCap
                        /\ queue' = queue
                        /\ \E s \in AllCallers :
                              subs'[s] = [pc |-> "send", job |-> id]]_vars
    /\ [][\A s \in AllCallers :
            (subs[s].pc = "send" /\ subs'[s].pc # "send") =>
               /\ queue' = Append(queue, subs[s].job)
               /\ jobs' = jobs
               /\ events' = events]_vars
    /\ [][nextId' = nextId =>
            /\ DOMAIN jobs' = DOMAIN jobs
            /\ \A j \in DOMAIN jobs : Dequeued(j) => j \notin Range(queue')]_vars
    /\ [](\A i, k \in 1..Len(queue) : i # k => queue[i] # queue[k])

\* A job was just added next to one that a worker is running.
C7_Witness ==
    \E id, k \in DOMAIN jobs :
        /\ id # k
        /\ id \in Range(queue)
        /\ jobs[id].Status = JobStatusQueued
        /\ jobs[id].Total = 1
        /\ events[id] = <<>>
        /\ jobs[k].Status = JobStatusProcessing
        /\ events[k] # <<>>

\* C8: the job a submitter reads in the submission response shows queued,
\* progress 0 and total 1, however far a worker has advanced the job.
C8_ResponseShowsQueued ==
    ret.op = "Queue" =>
        /\ ret.status = JobStatusQueued
        /\ ret.progress = 0
        /\ ret.total = 1

\* C9: every submitted job eventually reaches a terminal state.
C9_EveryJobTerminates ==
    \A j \in LoadJobIds : [](j \in DOMAIN jobs => <>IsTerminal(j))

Running(w) == workers[w].job # NoJob /\ workers[w].pc \notin {"check", "setProcessing"}

\* C10: Start launches exactly maxWorkers loops; at most maxWorkers jobs are
\* processing, each of them run by exactly one loop, and no loop runs two.
C10_BoundedWorkers ==
    /\ workers # <<>> => DOMAIN workers = 1..maxWorkers
    /\ Cardinality({j \in DOMAIN jobs : jobs[j].Status = JobStatusProcessing})
          <= maxWorkers
    /\ \A j \in DOMAIN jobs :
          jobs[j].Status = JobStatusProcessing =>
             Cardinality({w \in DOMAIN workers : Running(w) /\ workers[w].job = j}) = 1
    /\ \A w \in DOMAIN workers :
          Running(w) => jobs[workers[w].job].Status = JobStatusProcessing

C10_Witness ==
    /\ maxWorkers = MaxWorkers
    /\ Cardinality({j \in DOMAIN jobs : jobs[j].Status = JobStatusProcessing})
          = MaxWorkers

\* C11: a provider error fails only the job it was reported for: reporting it
\* changes no record, recording it sets that job failed with the worker's
\* error text and leaves every other record, the channel and every other
\* worker as they were, and the worker is back at the receive, ready for the
\* next queued job.
C11_FailureIsLocal ==
    /\ [][\A w \in DOMAIN workers :
            (w \in DOMAIN workers' /\ ~workers[w].failed /\ workers'[w].failed)
               => jobs' = jobs /\ queue' = queue]_vars
    /\ [][\A w \in DOMAIN workers :
            (workers[w].pc = "finish" /\ workers[w].failed /\ workers'[w] # workers[w])
               => /\ jobs'[workers[w].job].Status = JobStatusFailed
                  /\ jobs'[workers[w].job].Error = workers[w].err
                  /\ \A k \in DOMAIN jobs \ {workers[w].job} : jobs'[k] = jobs[k]
                  /\ queue' = queue
                  /\ \A v \in DOMAIN workers \ {w} : workers'[v] = workers[v]
                  /\ workers'[w].pc = "recv"
                  /\ workers'[w].job = NoJob]_vars

\* With a single worker: one job failed, and the worker is running the next.
C11_Witness ==
    /\ maxWorkers = 1
    /\ \E j, k \in DOMAIN jobs :
          /\ jobs[j].Status = JobStatusFailed
          /\ jobs[j].Error # ""
          /\ jobs[k].Status = JobStatusProcessing
          /\ jobs[k].Error = ""
          /\ \E w \in DOMAIN workers : workers[w].job = k /\ Running(w)

\* The error texts a failed job of the given kind can carry for a provider
\* failure with message m.
FailureTexts(jobType, m) ==
    {"failed to get " \o jobType \o " metadata: " \o m,
     IF jobType = "track" THEN "failed to download track: " \o m ELSE m}

LastEvent(j) == events[j][Len(events[j])]

\* C12 as claimed: a failed job's error text is the provider's message
\* verbatim, and the error event carries exactly that message.
C12_ErrorTextVerbatim ==
    \A j \in DOMAIN jobs :
        jobs[j].Status = JobStatusFailed =>
          /\ jobs[j].Error \in ProviderErrors
          /\ LastEvent(j).Type = "error"
          /\ LastEvent(j).Message \in ProviderErrors

\* C12 as amended: a failed job's error text is the provider's message with
\* the context of the failed call in front of it (none for the retrieval of an
\* album or an artist), and the event of the transition has kind error, the
\* state label failed and exactly the job's error text as its message.
C12_ErrorTextWrapped ==
    \A j \in DOMAIN jobs :
        jobs[j].Status = JobStatusFailed =>
          /\ \E m \in ProviderErrors : jobs[j].Error \in FailureTexts(jobs[j].Type, m)
          /\ events[j] # <<>>
          /\ LastEvent(j).Type = "error"
          /\ LastEvent(j).Status = JobStatusFailed
          /\ LastEvent(j).Message = jobs[j].Error

\* Jobs failed in metadata resolution and in retrieval, of different kinds.
C12_Witness ==
    \E j, k \in DOMAIN jobs, m \in ProviderErrors :
        /\ jobs[j].Status = JobStatusFailed
        /\ jobs[j].Error = "failed to get " \o jobs[j].Type \o " metadata: " \o m
        /\ jobs[k].Status = JobStatusFailed
        /\ jobs[k].Type # "track"
        /\ jobs[k].Error = m

\* C13: a completed track job shows progress 1, total 1, a start and a
\* completion time; a job no worker has received and nobody cancelled shows
\* queued, progress 0, total 1.
C13_TrackJobSnapshots ==
    \A j \in DOMAIN jobs :
        /\ (jobs[j].Type = "track" /\ jobs[j].Status = JobStatusCompleted) =>
              /\ jobs[j].Progress = 1
              /\ jobs[j].Total = 1
              /\ jobs[j].StartedAt
              /\ jobs[j].CompletedAt
              /\ jobs[j].Error = ""
        /\ (~Dequeued(j) /\ j \notin DOMAIN cancelled) =>
              /\ jobs[j].Status = JobStatusQueued
              /\ jobs[j].Progress = 0
              /\ jobs[j].Total = 1
              /\ ~jobs[j].StartedAt
              /\ ~jobs[j].CompletedAt

\* One track job completed while another still waits in the channel.
C13_Witness ==
    \E j, k \in DOMAIN jobs :
        /\ jobs[j].Type = "track"
        /\ jobs[j].Status = JobStatusCompleted
        /\ j \in invoked
        /\ k \in Range(queue)
        /\ jobs[k].Status = JobStatusQueued

\* The step is a worker's call of SetJobStatus.
CallsSetJobStatus(w) ==
    /\ w \in DOMAIN workers
    /\ workers[w].pc \in {"setProcessing", "finish"}
    /\ workers'[w] # workers[w]

\* The status the worker hands to SetJobStatus in that call.
RequestedStatus(w) ==
    IF workers[w].pc = "setProcessing" THEN JobStatusProcessing
    ELSE IF workers[w].failed THEN JobStatusFailed
    ELSE JobStatusCompleted

\* C14: every SetJobStatus on an existing job makes exactly one
\* BroadcastProgress call, for that job, labelled with the new state:
\* kind "complete" with percentage 100 for completed, kind "error" with the
\* error text for failed, kind "status" otherwise.
C14_StatusEvent ==
    [][\A w \in DOMAIN workers :
          CallsSetJobStatus(w) =>
            LET j == workers[w].job
                new == RequestedStatus(w)
            IN /\ jobs'[j].Status = new
               /\ Len(events'[j]) = Len(events[j]) + 1
               /\ SubSeq(events'[j], 1, Len(events[j])) = events[j]
               /\ \A k \in DOMAIN events \ {j} : events'[k] = events[k]
               /\ LET e == events'[j][Len(events'[j])]
                  IN /\ e.JobID = j
                     /\ e.Status = new
                     /\ new = JobStatusCompleted =>
                           e.Type = "complete" /\ e.Progress = Hundred
                     /\ new = JobStatusFailed =>
                           e.Type = "error" /\ e.Message = workers[w].err
                     /\ new \notin {JobStatusCompleted, JobStatusFailed} =>
                           e.Type = "status"]_vars

\* A completed job whose counters are not at 100 percent (progress 0 of 2),
\* next to a failed one.
C14_Witness ==
    \E j, k \in DOMAIN jobs :
        /\ jobs[j].Status = JobStatusCompleted
        /\ jobs[j].Progress # jobs[j].Total
        /\ LastEvent(j).Type = "complete"
        /\ jobs[k].Status = JobStatusFailed
        /\ LastEvent(k).Type = "error"

\* The percentage is a number between 0 and 100 (a zero denominator is the
\* NaN or Inf of a division by zero).
InRange(p) == p.den > 0 /\ 0 <= p.num /\ p.num <= 100 * p.den

\* C15: every event handed to the Hub carries a percentage between 0 and 100,
\* whatever counters the job holds, and with total > 0 the percentage is
\* progress/total*100 clamped to [0,100] (100 for the completion event, whose
\* percentage is forced).
C15_PercentageInRange ==
    [][\A j \in DOMAIN events :
          Len(events'[j]) > Len(events[j]) =>
            LET e == events'[j][Len(events'[j])]
                progress == jobs'[j].Progress
                total == jobs'[j].Total
            IN /\ InRange(e.Progress)
               /\ (total > 0 /\ e.Type # "complete") =>
                     IF progress > total
                       THEN e.Progress.num = 100 * e.Progress.den
                       ELSE e.Progress.num * total = progress * 100 * e.Progress.den]_vars

\* C16: every step that changes a job's state or its progress counters
\* (SetJobStatus, UpdateJobProgress, a successful CancelJob) makes a
\* BroadcastProgress call for that job.
C16_MutationsBroadcast ==
    [][\A j \in DOMAIN jobs :
          (\/ jobs'[j].Status # jobs[j].Status
           \/ jobs'[j].Progress # jobs[j].Progress
           \/ jobs'[j].Total # jobs[j].Total)
             => Len(events'[j]) = Len(events[j]) + 1]_vars

\* ------------------------------------------------------------ hub claims
\* The step in which the Run loop finishes the fan-out of hub.message.
FanOutStep == hub.pc = "broadcast" /\ hub'.pc # "broadcast"

\* The connections registered under the job id of the message the loop holds
\* or under the wildcard key.
Matching == ClientsOf(hclients, hub.message.JobID) \cup ClientsOf(hclients, AllKey)

\* C17: every event with job id J that the Hub loop accepts is enqueued,
\* unchanged, to every connection registered under J and to every connection
\* registered under "all" whose queue is not full; the event of a 50/100
\* progress update carries percentage 50 and the job's state label.
C17_FanOutToAll ==
    [][FanOutStep =>
         \A c \in Matching :
            Len(conns[c].send) < SendCap =>
               /\ conns'[c].send = Append(conns[c].send, hub.message)
               /\ hub.message.Progress = Percent(50, 100)
               /\ hub.message.Status = JobStatusProcessing]_vars

\* Two connections of the same job and a wildcard connection hold the same
\* 50% event of that job.
C17_Witness ==
    \E c1, c2, c3 \in ClientIds :
       /\ c1 # c2
       /\ conns[c1].jobID \in JobKeys
       /\ conns[c2].jobID = conns[c1].jobID
       /\ conns[c3].jobID = AllKey
       /\ conns[c1].send # <<>>
       /\ conns[c2].send = conns[c1].send
       /\ conns[c3].send = conns[c1].send
       /\ Head(conns[c1].send).JobID = conns[c1].jobID
       /\ Head(conns[c1].send).Progress = Percent(50, 100)
       /\ Head(conns[c1].send).Status = JobStatusProcessing

\* The step in which BroadcastProgress is called.
EmitStep == clock' = clock + 1

\* C18 as claimed: a wildcard connection that stays registered receives every
\* event emitted for every job.  Stated on finite runs: when the Run loop is
\* back in its select and holds nothing, the latest event emitted since the
\* connection was registered has been enqueued to it.
C18_WildcardReceivesEvery ==
    \A c \in ClientIds :
       (/\ hub.pc = "select"
        /\ c \in ClientsOf(hclients, AllKey)
        /\ clock > conns[c].since)
          => conns[c].got = clock

\* C18 amended: an event emitted while the Run loop waits in its select is
\* accepted by the loop, and every event the loop accepts, of whatever job,
\* is enqueued to every wildcard connection that stays registered; an event
\* emitted while the loop is busy is dropped and reaches no connection.
C18_WildcardReceivesAccepted ==
    [][/\ (EmitStep /\ hub.pc = "select") =>
            /\ hub'.pc = "broadcast"
            /\ hub'.message.Timestamp = clock'
       /\ (EmitStep /\ hub.pc # "select") => UNCHANGED <<hub, hclients, conns>>
       /\ FanOutStep =>
            \A c \in ClientsOf(hclients, AllKey) :
               c \in ClientsOf(hclients', AllKey) =>
                  /\ conns'[c].got = hub.message.Timestamp
                  /\ conns'[c].send = Append(conns[c].send, hub.message)]_vars

\* A wildcard connection has been handed a second event, of the job other
\* than the one of the first event it was handed.
C18_Witness ==
    \E c \in ClientIds :
       /\ c \in ClientsOf(hclients, AllKey)
       /\ conns[c].since = 0
       /\ conns[c].got = 2
       /\ Len(conns[c].send) = 1
       /\ Head(conns[c].send).Timestamp = 2
       /\ Head(conns[c].send).JobID = "job-2"

\* C19: a connection registered under a job id only ever has events of that
\* job in its delivery queue.
C19_OnlyOwnJob ==
    \A c \in ClientIds :
       conns[c].jobID \in JobKeys =>
          \A i \in 1..Len(conns[c].send) :
             conns[c].send[i].JobID = conns[c].jobID

\* A job-scoped connection holds an event of its job while a wildcard
\* connection holds an event of another job, fanned out after the job-scoped
\* connection was registered and while it still is.
C19_Witness ==
    \E c, w \in ClientIds :
       /\ conns[c].jobID \in JobKeys
       /\ c \in ClientsOf(hclients, conns[c].jobID)
       /\ conns[c].send # <<>>
       /\ conns[w].jobID = AllKey
       /\ conns[w].send # <<>>
       /\ Head(conns[w].send).JobID # conns[c].jobID
       /\ Head(conns[w].send).Timestamp > conns[c].since

\* C20: a connection whose queue is full when an event is fanned out to it is
\* removed from the registry and its queue closed in that step, without the
\* event being enqueued; nothing is enqueued to a closed queue afterwards.
C20_FullQueueDropped ==
    [][/\ FanOutStep =>
            \A c \in Matching :
               Len(conns[c].send) >= SendCap =>
                  /\ \A key \in DOMAIN hclients' : c \notin hclients'[key]
                  /\ conns'[c].closed
                  /\ conns'[c].send = conns[c].send
                  /\ conns'[c].got = conns[c].got
       /\ \A c \in ClientIds :
            conns[c].closed =>
               /\ conns'[c].closed
               /\ conns'[c].got = conns[c].got
               /\ Len(conns'[c].send) <= Len(conns[c].send)
               /\ \A key \in DOMAIN hclients' : c \notin hclients'[key]]_vars

\* A connection was dropped by a fan-out (its read loop has not asked to be
\* unregistered) and another connection has since been handed a later event.
C20_Witness ==
    \E c, d \in ClientIds :
       /\ conns[c].closed
       /\ conns[c].rd = "reading"
       /\ Len(conns[c].send) = SendCap
       /\ \A key \in DOMAIN hclients : c \notin hclients[key]
       /\ d \in ClientsOf(hclients, conns[d].jobID)
       /\ conns[d].since <= conns[c].since
       /\ conns[d].got > conns[c].got + 1

\* The connection is filed under its own key in the registry.
Registered(hc, c) == c \in ClientsOf(hc, conns[c].jobID)

\* C21: when a fan-out drops a connection whose queue is full, every other
\* matching connection with room in its queue is handed the event and stays
\* registered, and the connections the event does not match are untouched.
C21_DropIsLocal ==
    [][(FanOutStep /\ \E c \in Matching : Len(conns[c].send) >= SendCap) =>
         \A d \in ClientIds :
            /\ (d \in Matching /\ Len(conns[d].send) < SendCap) =>
                  /\ conns'[d].send = Append(conns[d].send, hub.message)
                  /\ ~conns'[d].closed
                  /\ Registered(hclients', d)
            /\ d \notin Matching =>
                  /\ conns'[d] = conns[d]
                  /\ Registered(hclients', d) = Registered(hclients, d)]_vars

\* A connection was dropped by a fan-out while another connection of the same
\* job, registered before, was handed the event of that fan-out and a later
\* one, and is still registered.
C21_Witness ==
    \E c, d \in ClientIds :
       /\ c # d
       /\ conns[c].closed
       /\ conns[c].rd = "reading"
       /\ conns[c].got > 0
       /\ conns[d].jobID = conns[c].jobID
       /\ conns[d].since < conns[c].got
       /\ conns[d].got >= conns[c].got + 2
       /\ ~conns[d].closed
       /\ Registered(hclients, d)

\* C22: BroadcastProgress can be called and returns in every state of the
\* hub, whatever the Run loop holds and however full the queues are; the call
\* hands the event to the loop or drops it, and touches neither the registry
\* of connections nor any connection's queue.
C22_BroadcastNeverBlocks ==
    [][/\ \A jobID \in JobKeys : ENABLED ProgressCall(jobID)
       /\ EmitStep =>
            /\ \/ hub'.pc = "broadcast" /\ hub'.message.Timestamp = clock'
               \/ hub' = hub
            /\ UNCHANGED <<hclients, conns>>]_vars

\* BroadcastProgress has returned, dropping its event, while the Run loop
\* held an earlier event and a registered connection's queue was full.
C22_Witness ==
    /\ hub.pc = "broadcast"
    /\ hub.message.Timestamp < clock
    /\ \E c \in ClientIds :
          /\ Registered(hclients, c)
          /\ Len(conns[c].send) = SendCap

\* One of the connection's loops has stopped or is bound to: the read loop
\* left its for loop, the write loop returned, or the queue was closed.
LoopFailed(c) ==
    \/ conns[c].rd \in {"unregister", "done"}
    \/ conns[c].wr = "done"
    \/ conns[c].closed

\* C23: once either loop of a connection fails, the connection is eventually
\* out of the registry with both of its loops ended.
C23_TeardownCompletes ==
    \A c \in TeardownClients :
       LoopFailed(c) ~>
          (/\ ~Registered(hclients, c)
           /\ conns[c].rd = "done"
           /\ conns[c].wr = "done")

\* A connection that was registered and handed an event has been taken out
\* of the registry and its queue closed, with both of its loops ended.
C23_Witness ==
    \E c \in TeardownClients :
       /\ conns[c].rd = "done"
       /\ conns[c].wr = "done"
       /\ conns[c].closed
       /\ conns[c].got > 0
       /\ ~Registered(hclients, c)

\* Worker w's next statement reads the Status of job id without jq.mu (the
\* check after the receive), or writes its Title and Artist without jq.mu
\* (the process functions).
ReadsStatusUnlocked(w, id) == workers[w].pc = "check" /\ workers[w].job = id
WritesTitleUnlocked(w, id) == workers[w].pc = "resolve" /\ workers[w].job = id

\* C24: no two actors access the same field of the same job at once with one
\* of them writing: while a worker stands at an access it makes without the
\* lock, no CancelJob can write the job's Status and no handler serialises
\* the job into its response.
C24_AccessesGuarded ==
    \A w \in DOMAIN workers : \A id \in DOMAIN jobs :
       /\ ReadsStatusUnlocked(w, id) =>
             ~(mu = "free" /\ jobs[id].Status = JobStatusQueued)
       /\ WritesTitleUnlocked(w, id) =>
             \A s \in Submitters : ~(subs[s].pc = "respond" /\ subs[s].job = id)

\* C25: a job AddJob returned is in the registry from then on, found by GetJob
\* and listed by GetAllJobs; a failed job keeps its state and its error text.
C25_JobsStay ==
    [][/\ \A id \in JobIds : ret' = AddJobRet(id) => GetJob(jobs', id).exists
       /\ \A id \in DOMAIN jobs :
            /\ GetJob(jobs', id) = [exists |-> TRUE, job |-> id]
            /\ id \in GetAllJobs(jobs')
            /\ jobs[id].Status = JobStatusFailed =>
                  /\ jobs'[id].Status = JobStatusFailed
                  /\ jobs'[id].Error = jobs[id].Error]_vars

\* A failed job is still in the registry with its error text after a later
\* job was added and a CancelJob was tried on the failed one.
C25_Witness ==
    \E id, later \in DOMAIN jobs :
       /\ later > id
       /\ jobs[id].Status = JobStatusFailed
       /\ jobs[id].Error # ""
       /\ ret = CancelRet(id, FALSE)
       /\ GetJob(jobs, id).exists
       /\ id \in GetAllJobs(jobs)

\* C26: for an identifier that is not in the registry GetJob reports not
\* found with no record, CancelJob returns false, and UpdateJobProgress and
\* SetJobStatus change nothing of the registry and make no call on the Hub.
C26_UnknownIdentifier ==
    [][\A id \in JobIds \ DOMAIN jobs :
          /\ GetJob(jobs, id) = [exists |-> FALSE, job |-> NoJob]
          /\ (ret'.op = "CancelJob" /\ ret'.id = id) => ~ret'.ok
          /\ (ret'.op \in {"CancelJob", "UpdateJobProgress", "SetJobStatus"}
                 /\ ret'.id = id) =>
                UNCHANGED <<jobs, queue, activeJobs, cancelled, events>>]_vars

\* SetJobStatus has returned for an identifier that is not in the registry,
\* next to a job that is.
C26_Witness ==
    \E id \in JobIds \ DOMAIN jobs :
       /\ ret = VoidRet("SetJobStatus", id)
       /\ jobs # <<>>

\* The subscription key is "all" or the identifier of a job of the registry.
KnownKey(js, key) == key = AllKey \/ \E id \in DOMAIN js : JobKey(id) = key

\* C27: a subscription for an identifier that is not in the registry is
\* refused without creating or registering a connection and without touching
\* the hub; a connection is created only for a job of the registry or "all".
C27_UnknownJobRejected ==
    [][/\ \A c \in ClientIds :
            (conns[c] = NoConn /\ conns'[c] # NoConn) =>
               KnownKey(jobs, conns'[c].jobID)
       /\ \A key \in DOMAIN hclients' : KnownKey(jobs', key)
       /\ \A jobID \in JobKeys :
            ~KnownKey(jobs, jobID) =>
               /\ \A c \in ClientIds : conns'[c].jobID # jobID
               /\ (ret' = NotFoundRet(jobID) /\ ret' # ret) =>
                     UNCHANGED <<hub, hclients, conns>>]_vars

\* A subscription for an identifier that is not in the registry was refused
\* while a connection for a job of the registry is registered.
C27_Witness ==
    \E jobID \in JobKeys :
       /\ ret = NotFoundRet(jobID)
       /\ ~KnownKey(jobs, jobID)
       /\ \E key \in DOMAIN hclients : key # AllKey

\* The event the loop holds is one for the connection's key.
ForKey(c) == conns[c].jobID \in {hub.message.JobID, AllKey}

\* C28: the Run loop takes one request at a time and finishes it before the
\* next; every event it accepts after RegisterClient(c) returned is enqueued
\* to c if it is for c's key and c has not been removed (room permitting),
\* and nothing is enqueued to c once it has been removed.
C28_OneRequestAtATime ==
    [][/\ hub.pc # "select" => hub' \in {hub, HubSelect}
       /\ FanOutStep =>
            \A c \in ClientIds :
               (/\ conns[c] # NoConn
                /\ ~conns[c].closed
                /\ ForKey(c)
                /\ Len(conns[c].send) < SendCap)
                  => conns'[c].send = Append(conns[c].send, hub.message)
       /\ \A c \in ClientIds :
            (conns[c].closed /\ conns[c].rd = "done") =>
               /\ conns'[c].got = conns[c].got
               /\ Len(conns'[c].send) <= Len(conns[c].send)]_vars

\* A connection was handed the first event, then unregistered, and the second
\* event, which is for its key, went to another connection only.
C28_Witness ==
    \E c, d \in ClientIds :
       /\ conns[c].closed
       /\ conns[c].rd = "done"
       /\ conns[c].got = 1
       /\ conns[d].got = 2
       /\ conns[d].send # <<>>
       /\ conns[c].jobID \in {Head(conns[d].send).JobID, AllKey}
       /\ Head(conns[d].send).Timestamp = 2

\* The message BroadcastProgress builds for the progress update of a job when
\* it is the t-th call.
CallMessage(jobID, t) ==
    TimedMessage(jobID, "progress", JobStatusProcessing, CurrentFile(50, 100), "",
                 "Downloaded 50 of 100 tracks", Percent(50, 100), t)

\* C29: the loop only ever holds a message that a BroadcastProgress call made
\* for a job handed to it; a connection's queue grows only by the message the
\* loop holds, one at a time, and never by a message it was given before.
C29_AtMostOnce ==
    [][/\ hub'.message # hub.message =>
            \/ hub'.message = NoMessage
            \/ /\ EmitStep
               /\ \E jobID \in JobKeys : hub'.message = CallMessage(jobID, clock')
       /\ \A c \in ClientIds :
            Len(conns'[c].send) > Len(conns[c].send) =>
               /\ hub.pc = "broadcast"
               /\ conns'[c].send = Append(conns[c].send, hub.message)
               /\ hub.message.Timestamp > conns[c].got
               /\ hub.message.Timestamp <= clock
               /\ conns'[c].got = hub.message.Timestamp]_vars

\* A job-scoped connection and a wildcard connection each hold, once, the
\* second event, which is of the job-scoped connection's job.
C29_Witness ==
    \E c, w \in ClientIds :
       /\ conns[c].jobID \in JobKeys
       /\ conns[w].jobID = AllKey
       /\ conns[c].send = <<CallMessage(conns[c].jobID, 2)>>
       /\ conns[w].send = conns[c].send
       /\ conns[w].got = 2
       /\ clock = 2

\* C30: h.clients changes only in a step in which the Run loop finishes the
\* case it took.  RegisterClient and UnregisterClient hand their client to the
\* loop, BroadcastProgress hands over its message or drops it, and the read
\* and write loops and the job registry leave both the map and the loop alone.
C30_SingleWriter ==
    [][/\ hclients' # hclients => (hub.pc # "select" /\ hub' = HubSelect)
       /\ \A c \in ClientIds :
            /\ (conns[c] = NoConn /\ conns'[c] # NoConn) =>
                  /\ hclients' = hclients
                  /\ hub' = [pc |-> "register", client |-> c, message |-> NoMessage]
            /\ (conns[c].rd = "unregister" /\ conns'[c].rd = "done") =>
                  /\ hclients' = hclients
                  /\ hub' = [pc |-> "unregister", client |-> c, message |-> NoMessage]
            /\ (conns'[c].rd # conns[c].rd /\ conns'[c].rd = "unregister") =>
                  UNCHANGED <<hub, hclients>>
            /\ conns'[c].wr # conns[c].wr => hclients' = hclients
            /\ Len(conns'[c].send) < Len(conns[c].send) => UNCHANGED <<hub, hclients>>
       /\ EmitStep => hclients' = hclients
       /\ jqVars' # jqVars => UNCHANGED <<hub, hclients>>]_vars

\* UnregisterClient has returned and the read loop has ended while the
\* connection is still in the registry: the loop has yet to remove it.
C30_Witness ==
    \E c \in ClientIds :
       /\ hub = [pc |-> "unregister", client |-> c, message |-> NoMessage]
       /\ conns[c].rd = "done"
       /\ Registered(hclients, c)
       /\ clock > 0

\* C31: the job in the response to a submission made while a worker was idle
\* shows processing.
C31_ResponseShowsProcessing ==
    ret.op = "Queue" => ret.status = JobStatusProcessing

\* The worker's next statement is a call that takes jq.mu (SetJobStatus or
\* UpdateJobProgress).
WaitsForLock(w) ==
    workers[w].pc \in {"setProcessing", "progress0", "progress1", "finish"}

\* C32: while an AddJob is pending on the full channel no worker waits for
\* the lock it holds: a worker blocks only in the receive or in the provider.
C32_WorkerNeverBlockedByAddJob ==
    \A s \in Submitters :
        subs[s].pc = "send" => \A w \in DOMAIN workers : ~WaitsForLock(w)

\* This step of the Run loop executes close(client.send) for c: the
\* unregister case when c is in the registry, or a fan-out that finds c's
\* channel full.
ClosesSend(c) ==
    \/ /\ hub.pc = "unregister"
       /\ hub' = HubSelect
       /\ hub.client = c
       /\ c \in ClientsOf(hclients, conns[c].jobID)
    \/ /\ hub.pc = "broadcast"
       /\ hub' = HubSelect
       /\ c \in Targets(hclients, hub.message)
       /\ Len(conns[c].send) >= SendCap

\* The Run loop finishes the unregister case for a client that is not in the
\* registry.
UnregistersAbsent ==
    /\ hub.pc = "unregister"
    /\ hub' = HubSelect
    /\ hub.client \notin ClientsOf(hclients, conns[hub.client].jobID)

\* C33: the Run loop never closes a send channel that is already closed, and
\* the unregister case for a client that has left the registry changes neither
\* the registry nor any connection.
C33_ClosedAtMostOnce ==
    [][/\ \A c \in ClientIds : ClosesSend(c) => ~conns[c].closed
       /\ UnregistersAbsent => UNCHANGED <<hclients, conns>>]_vars

\* The unregister request of a connection that a fan-out has already dropped
\* and closed is in the hands of the Run loop.
C33_Witness ==
    /\ hub.pc = "unregister"
    /\ conns[hub.client].closed
    /\ hub.client \notin ClientsOf(hclients, conns[hub.client].jobID)

\* C34: every connection in the registry has an open send channel and is a
\* member of the set of its own key and of no other; no key has an empty set.
C34_RegistryIsOpenAndKeyed ==
    \A key \in DOMAIN hclients :
        /\ hclients[key] # {}
        /\ \A c \in hclients[key] :
              /\ conns[c] # NoConn
              /\ ~conns[c].closed
              /\ conns[c].jobID = key

\* The registry holds a connection for a job and one under the wildcard key,
\* while another connection has been closed and has left the registry.
C34_Witness ==
    /\ \E c \in ClientIds : Registered(hclients, c) /\ conns[c].jobID \in JobKeys
    /\ \E c \in ClientIds : Registered(hclients, c) /\ conns[c].jobID = AllKey
    /\ \E c \in ClientIds :
          conns[c] # NoConn /\ conns[c].closed /\ ~Registered(hclients, c)

\* C35: a job has a completion timestamp exactly when its status is
\* completed, failed or cancelled.
C35_CompletedAtIffTerminal ==
    \A j \in DOMAIN jobs : jobs[j].CompletedAt <=> IsTerminal(j)

\* Worker w receives job id from jq.queue in this step.
Receives(w, id) ==
    /\ w \in DOMAIN workers
    /\ workers[w].pc = "recv"
    /\ workers'[w].pc = "check"
    /\ workers'[w].job = id

\* Worker w holds job id: it received it and has not finished with it.
Holds(w, id) == w \in DOMAIN workers /\ workers[w].job = id

\* The job waits in jq.queue or in the blocked send of its AddJob.
Waiting(id) ==
    \/ id \in Range(queue)
    \/ \E s \in AllCallers : subs[s].pc = "send" /\ subs[s].job = id

\* C36: a job is received by one worker, once: the received job was waiting,
\* is gone from the channel afterwards and nothing but its AddJob puts a job
\* there; no other worker holds it, the provider was not called for it and it
\* was never marked processing.  Each job gets one metadata call, one
\* transition to processing and one to completed or failed.
C36_ProcessedOnce ==
    [][/\ \A w \in DOMAIN workers :
            LET id == workers[w].job
                got == workers'[w].job
            IN /\ Receives(w, got) =>
                    /\ got \in Range(queue)
                    /\ got \notin Range(queue')
                    /\ \A v \in WorkerIds : ~Holds(v, got)
                    /\ got \notin invoked
                    /\ ~jobs[got].StartedAt
               /\ (workers[w].pc = "resolve" /\ workers'[w].pc # "resolve") =>
                    (id \notin invoked /\ \A v \in WorkerIds \ {w} : ~Holds(v, id))
               /\ (workers[w].pc = "finish" /\ workers'[w].pc # "finish") =>
                    jobs[id].Status = JobStatusProcessing
       /\ queue' # queue =>
            \A id \in Range(queue') \ Range(queue) :
                id \notin DOMAIN jobs \/ Waiting(id)
       /\ jobs' # jobs =>
            \A id \in DOMAIN jobs :
                jobs'[id].Status # jobs[id].Status =>
                  /\ jobs'[id].Status = JobStatusProcessing => ~jobs[id].StartedAt
                  /\ jobs'[id].Status \in {JobStatusCompleted, JobStatusFailed} =>
                        jobs[id].Status = JobStatusProcessing]_vars

\* Two workers have each taken one of two jobs through the provider to
\* completed or failed.
C36_Witness ==
    /\ Cardinality(DOMAIN workers) >= 2
    /\ \E i, j \in DOMAIN jobs :
          /\ i # j
          /\ {i, j} \subseteq invoked
          /\ jobs[i].Status \in {JobStatusCompleted, JobStatusFailed}
          /\ jobs[j].Status \in {JobStatusCompleted, JobStatusFailed}
          /\ jobs[i].StartedAt /\ jobs[j].StartedAt
    /\ \A w \in DOMAIN workers : workers[w].job = NoJob

\* AddJob takes identifiers in the order of its calls, so a job submitted
\* before job id has a smaller identifier.
SubmittedBefore(id) == {k \in DOMAIN jobs : k < id}

\* The job's status changes to st in this step.
Becomes(id, st) ==
    id \in DOMAIN jobs /\ jobs[id].Status # st /\ jobs'[id].Status = st

EventsInOrder(id) ==
    LET ev == events[id] IN
    /\ \A i \in 1..Len(ev) :
          /\ (i = 1) <=> (ev[i].Type = "status" /\ ev[i].Status = JobStatusProcessing)
          /\ i > 1 => ev[i].Type \in {"progress", "complete", "error"}
          /\ ev[i].Type \in {"complete", "error"} => i = Len(ev)
    /\ (jobs[id].Status \in {JobStatusCompleted, JobStatusFailed})
          <=> (ev # <<>> /\ ev[Len(ev)].Type \in {"complete", "error"})

\* The message BroadcastProgress builds in the call that hands the i-th
\* recorded event of the job to the hub.
MessageOf(id, i) ==
    LET e == events[id][i]
    IN TimedMessage(JobKey(id), e.Type, e.Status, e.CurrentFile, e.Speed,
                    e.Message, e.Progress, i)

\* Every message in the connection's queue is a recorded event of a job, and
\* the queue holds them in the order of the calls.
QueueInOrder(c) ==
    \A i \in 1..Len(conns[c].send) :
        LET m == conns[c].send[i] IN
        /\ \E id \in DOMAIN events :
              /\ m.Timestamp \in 1..Len(events[id])
              /\ m = MessageOf(id, m.Timestamp)
        /\ i > 1 => conns[c].send[i - 1].Timestamp < m.Timestamp

\* C38: the events recorded for a job run from the status event of
\* processing over progress events to one closing complete or error event;
\* every message in a connection's queue is one of these events, the queue
\* holds them in the order of the calls, a fan-out adds only an event later
\* than every event the connection was given before, and the write loop
\* takes the events from the head of the queue.
C38_EventOrder ==
    [][/\ \A id \in DOMAIN jobs' : EventsInOrder(id)'
       /\ \A c \in ClientIds :
            /\ QueueInOrder(c)'
            /\ Len(conns'[c].send) > Len(conns[c].send) =>
                  /\ conns'[c].send = Append(conns[c].send, hub.message)
                  /\ hub.message.Timestamp > conns[c].got
                  /\ conns'[c].got = hub.message.Timestamp
            /\ Len(conns'[c].send) < Len(conns[c].send) =>
                  conns'[c].send = Tail(conns[c].send)
            /\ conns'[c].got >= conns[c].got]_vars

\* A connection of the job, registered before the first event, holds the
\* closing event of the finished job as the only message in its queue.
C38_Witness ==
    \E c \in ClientIds, id \in DOMAIN jobs :
        /\ conns[c].jobID = JobKey(id)
        /\ jobs[id].Status \in {JobStatusCompleted, JobStatusFailed}
        /\ Len(events[id]) >= 3
        /\ conns[c].send = <<MessageOf(id, Len(events[id]))>>
        /\ conns[c].since = 0

\* C39: a completed job of any kind has progress equal to total.
C39_CompletedProgressIsTotal ==
    \A j \in DOMAIN jobs :
        jobs[j].Status = JobStatusCompleted => jobs[j].Progress = jobs[j].Total

====
